---- MODULE Spec2Model ----
(***************************************************************************)
(* Renewable chronic synthesis of chronix2grid:                            *)
(*   generation/renewable/solar_wind_utils.py                              *)
(*     compute_solar_pattern, compute_solar_series, compute_wind_series,   *)
(*     smooth.                                                             *)
(*                                                                         *)
(* Numbers.  numpy float64 values are fixed-point integers, SCALE units    *)
(* to 1.0, so 0.95 is 950 and Pmax = 2 is 2000.  NaN is one value outside  *)
(* the range of every number the model computes; a float too large to      *)
(* matter (exp of a large argument, up to +inf) saturates at Huge.         *)
(* Arrays.  A long hourly array (the 8760-value legacy profile, the raw    *)
(* zonal irradiance of 4*8760 values and more) is a record that gives its  *)
(* length and its elements by index (At); the arrays of one value per      *)
(* time step (the pattern returned, the series) are sequences.             *)
(* Dates.  A timestamp is [year, min]: min is the number of minutes since  *)
(* 1 January 00:00 of `year`, the start year of the scenario.              *)
(***************************************************************************)
EXTENDS Integers, Sequences, FiniteSets, TLC

\* ---------------------------------------------------------------- numbers

\* fixed-point unit: the integer SCALE is the float 1.0
SCALE == 1000

\* numpy's nan (0.0 / 0.0 at the min-max normalisation)
NaN == -1000000000

\* a float beyond every threshold of the code (exp overflow, inf)
Huge == 1000000000

IsNaN(x) == x = NaN

Min2(a, b) == IF a < b THEN a ELSE b

Max2(a, b) == IF a > b THEN a ELSE b

SetMin(S) == CHOOSE x \in S : \A y \in S : x <= y

SetMax(S) == CHOOSE x \in S : \A y \in S : x >= y

\* a * b of two fixed-point numbers
FMul(a, b) == (a * b) \div SCALE

\* e^n for n = 0..6, in SCALE units
ExpTable == << 1000, 2718, 7389, 20086, 54598, 148413, 403429 >>

\* e^(f/SCALE) for 0 <= f < SCALE: the series 1 + f + f^2/2! + ... + f^7/7!
ExpFrac(f) ==
    LET t1 == f
        t2 == (t1 * f) \div (2 * SCALE)
        t3 == (t2 * f) \div (3 * SCALE)
        t4 == (t3 * f) \div (4 * SCALE)
        t5 == (t4 * f) \div (5 * SCALE)
        t6 == (t5 * f) \div (6 * SCALE)
        t7 == (t6 * f) \div (7 * SCALE)
    IN  SCALE + t1 + t2 + t3 + t4 + t5 + t6 + t7

\* np.exp(x) for x >= 0; saturates from e^7 on, where 1 / exp(x) is below the
\* resolution 1 / SCALE and every threshold of the code is passed
ExpPos(x) ==
    LET n == x \div SCALE
        f == x % SCALE
    IN  IF n >= 7 THEN Huge
        ELSE Min2(Huge, (ExpTable[n + 1] * ExpFrac(f)) \div SCALE)

\* np.exp(x): exp(-x) = 1 / exp(x), rounded down to the fixed-point grid, so
\* that as in floating point exp(-x) is exactly 0 from some finite x on.
NpExp(x) ==
    IF IsNaN(x) THEN NaN
    ELSE IF x >= 0 THEN ExpPos(x)
    ELSE (SCALE * SCALE) \div ExpPos(-x)

\* ------------------------------------------------------------------ dates

hours_per_year == 8760

n_years == 4

\* len of the hourly axis of one repetition, written as a literal at the
\* place where t_pattern is built
t_pattern_hours == 8760

MinutesPerDay == 1440

\* pd.Timestamp.hour of the date
HourOf(date) == (date.min \div 60) % 24

\* date + m minutes
AddMinutes(date, m) == [year |-> date.year, min |-> date.min + m]

\* int(pd.Timedelta(date - <1 January of start_date.year>).total_seconds() // 60)
MinutesSinceStartYear(params, date) == date.min

\* ----------------------------------------------------------------- arrays
\* An hourly array is a view [off, n] of stored values: n is its length and
\* element i (from 0) is the stored value off + i.  Stored value k is
\* day[k % 24] + yr[k \div 8760] below 4*8760 and `tail` from there on.

Stored(a, k) ==
    IF k >= n_years * hours_per_year THEN a.tail
    ELSE a.day[(k % 24) + 1] + a.yr[(k \div hours_per_year) + 1]

At(a, i) == Stored(a, a.off + i)

Has(params, key) == key \in DOMAIN params

\* params.get('use_zonal_solar_pattern', False)
UseZonal(params) ==
    IF Has(params, "use_zonal_solar_pattern")
    THEN params["use_zonal_solar_pattern"] ELSE FALSE

\* ------------------------------------------------- compute_solar_pattern
\* zonal branch

InsufficientData_Inclusive(len) == len <= hours_per_year * n_years

\* len(power_values) < total_values
InsufficientData(len) == len < hours_per_year * n_years

\* power_values[:total_values]
Truncate(a) == [a EXCEPT !.n = Min2(a.n, hours_per_year * n_years)]

\* power_values.reshape((n_years, hours_per_year)) raises unless the sizes agree
ReshapeOK(a) == a.n = n_years * hours_per_year

\* power_reshaped.mean(axis=0)[h]
average_pattern(power_values, h) ==
    (At(power_values, h) + At(power_values, h + hours_per_year)
       + At(power_values, h + 2 * hours_per_year)
       + At(power_values, h + 3 * hours_per_year)) \div n_years

\* the values of average_pattern; the array has the period of `day`
AverageValues(power_values) ==
    { average_pattern(power_values, h) : h \in 0..(hours_per_year - 1) }

\* (v - min) / (max - min): 0.0 / 0.0 is nan
MinMaxNormalize(v, lo, hi) ==
    IF hi = lo THEN NaN ELSE ((v - lo) * SCALE) \div (hi - lo)

\* solar_pattern[i] as the code sees it from line 159 on: the legacy profile
\* itself, or the normalised average of the four year-rows
PatternAt(p, i) ==
    IF p.zonal THEN MinMaxNormalize(average_pattern(p.src, i), p.lo, p.hi)
    ELSE At(p.src, i)

\* the array solar_pattern is bound to after the zonal branch
ZonalPattern(power_values) ==
    LET vals == AverageValues(power_values)
    IN  [zonal |-> TRUE, n |-> hours_per_year, src |-> power_values,
         lo |-> SetMin(vals), hi |-> SetMax(vals)]

LegacyPattern(solar_pattern) ==
    [zonal |-> FALSE, n |-> solar_pattern.n, src |-> solar_pattern,
     lo |-> 0, hi |-> 0]

\* ------------------------------------------------------------- repetition

\* int(end_min // 60 + 1)
Nt_inter_hr(end_min) == end_min \div 60 + 1

N_repet_Ceil(nt_hr, len) == ((nt_hr - 1) + len - 1) \div len

\* int((Nt_inter_hr - 1) // len(solar_pattern) + 1)
N_repet(nt_hr, len) == (nt_hr - 1) \div len + 1

\* len(stacked_solar_pattern): solar_pattern appended N_repet - 1 times
StackedLen(len, n_repet) == len * n_repet

\* stacked_solar_pattern[j]
StackedAt(p, j) == PatternAt(p, j % p.n)

\* len(t_pattern) = len(60 * np.linspace(0, 8760 * N, 8760 * N, endpoint=False))
TPatternLen(n_repet) == t_pattern_hours * n_repet

\* t_pattern[j]: 60 * j, the step of the linspace being exactly 1
TPatternAt(j) == 60 * j

Nt_inter_NoEndpoint(params) == params.T \div params.dt

\* int(params['T'] // params['dt'] + 1)
Nt_inter(params) == params.T \div params.dt + 1

\* np.linspace(a, b, n, endpoint=True)[i], i from 0, to the minute
Linspace(a, b, n, i) ==
    IF n = 1 THEN a ELSE a + (i * (b - a)) \div (n - 1)

\* ---------------------------------------------------------- interpolation
\* f2 = interp1d(t_pattern, stacked_solar_pattern, kind='cubic').  scipy fits
\* one cubic spline through all the knots; the model evaluates the cubic
\* through the four knots around t, which like the spline passes through
\* every sample and leaves the range of the samples between them.

\* interp1d refuses x and y of different lengths
InterpFitOK(x_len, y_len) == x_len = y_len

\* interp1d (bounds_error) refuses a point outside [x[0], x[-1]]
InterpInRange(x_len, t) == TPatternAt(0) <= t /\ t <= TPatternAt(x_len - 1)

CubicDen == 1296000

f2(p, x_len, t) ==
    LET k  == t \div 60
        b  == Max2(0, Min2(k - 1, x_len - 4))
        y0 == StackedAt(p, b)
        y1 == StackedAt(p, b + 1)
        y2 == StackedAt(p, b + 2)
        y3 == StackedAt(p, b + 3)
        d0 == t - TPatternAt(b)
        d1 == t - TPatternAt(b + 1)
        d2 == t - TPatternAt(b + 2)
        d3 == t - TPatternAt(b + 3)
    IN  IF IsNaN(y0) \/ IsNaN(y1) \/ IsNaN(y2) \/ IsNaN(y3) THEN NaN
        ELSE   ((0 - y0) * (d1 * d2 * d3)) \div CubicDen
             + (y1 * (3 * d0 * d2 * d3)) \div CubicDen
             + ((0 - y2) * (3 * d0 * d1 * d3)) \div CubicDen
             + (y3 * (d0 * d1 * d2)) \div CubicDen

\* output = output * (output > 0); output[output < tol] = 0.
Clip(v, tol) ==
    IF IsNaN(v) THEN NaN
    ELSE LET w == IF v > 0 THEN v ELSE 0
         IN  IF w < tol THEN 0 ELSE w

\* t_inter[i], i from 0
t_inter(params, i) ==
    Linspace(MinutesSinceStartYear(params, params.start_date),
             MinutesSinceStartYear(params, params.end_date),
             Nt_inter(params), i)

\* dts_hours[i], i from 0: the hour of start_date + i * dt
dts_hours(params, i) == HourOf(AddMinutes(params.start_date, i * params.dt))

\* ------------------------------------------------------------- night mask

\* len(left_) = len(right_) = len(np.arange(60 // dt))
RampLen(params) == 60 \div params.dt

\* (1 + k) - 30. / dt
RampArg(params, k) == (1 + k) * SCALE - (30 * SCALE) \div params.dt

\* left_[k] = 1 / (1 + exp(1 - ((1 + k) - 30 / dt)))
left_(params, k) ==
    (SCALE * SCALE) \div (SCALE + NpExp(SCALE - RampArg(params, k)))

\* right_[k] = 1 / (1 + exp(1 + ((1 + k) - 30 / dt)))
right_(params, k) ==
    (SCALE * SCALE) \div (SCALE + NpExp(SCALE + RampArg(params, k)))

\* int((end_date - start_date).total_seconds() // 86400)
nb_day(params) == (params.end_date.min - params.start_date.min) \div MinutesPerDay

NightHours(params) ==
    { params["solar_night_hour"][j] : j \in 1..Len(params["solar_night_hour"]) }

first_non_zero_h_NoShift(params) == SetMax({ h \in NightHours(params) : h <= 12 })

\* np.max(solar_night_hour[solar_night_hour <= 12]) + 1
first_non_zero_h(params) == SetMax({ h \in NightHours(params) : h <= 12 }) + 1

\* np.min(solar_night_hour[solar_night_hour >= 12]) - 1
last_non_zero_h(params) == SetMin({ h \in NightHours(params) : h >= 12 }) - 1

\* the steps (from 0) of hour h, and the place of step i among them (from 0)
StepsOfHour(params, nt, h) == { i \in 0..(nt - 1) : dts_hours(params, i) = h }

RankInHour(params, i) ==
    Cardinality({ j \in 0..(i - 1) : dts_hours(params, j) = dts_hours(params, i) })

\* tmp_[:len(all)] = all and tmp_[to_rem:] = all_right: numpy broadcasts a
\* longer array into the slice only if it has one element (the slice is
\* then empty)
AssignOK(len_all, cnt) == len_all <= cnt \/ len_all = 1

\* tmp_ of the left border at place r
LeftTmp(params, r) ==
    IF r < RampLen(params) * nb_day(params)
    THEN left_(params, r % RampLen(params)) ELSE 0

\* tmp_ of the right border at place r, cnt the number of steps of the hour
RightTmp(params, r, cnt) ==
    LET to_rem == cnt - RampLen(params) * nb_day(params)
    IN  IF r >= to_rem /\ RampLen(params) * nb_day(params) > 0
        THEN right_(params, (r - to_rem) % RampLen(params)) ELSE 0

\* to_mult[i], i from 0, after both borders are written (the right one last)
to_mult(params, nt, i) ==
    LET h == dts_hours(params, i)
    IN  IF h = last_non_zero_h(params)
        THEN RightTmp(params, RankInHour(params, i),
                      Cardinality(StepsOfHour(params, nt, h)))
        ELSE IF h = first_non_zero_h(params)
        THEN LeftTmp(params, RankInHour(params, i))
        ELSE IF h \in NightHours(params) THEN 0 ELSE SCALE

\* output *= to_mult
MulMask(v, m) == IF IsNaN(v) THEN NaN ELSE FMul(v, m)

\* the error the night mask ends with, "" if none
NightMaskErr(params, nt) ==
    IF { h \in NightHours(params) : h <= 12 } = {} THEN "empty_reduce"
    ELSE IF ~AssignOK(RampLen(params) * nb_day(params),
                     Cardinality(StepsOfHour(params, nt, first_non_zero_h(params))))
    THEN "broadcast"
    ELSE IF { h \in NightHours(params) : h >= 12 } = {} THEN "empty_reduce"
    ELSE IF ~AssignOK(RampLen(params) * nb_day(params),
                     Cardinality(StepsOfHour(params, nt, last_non_zero_h(params))))
    THEN "broadcast"
    ELSE ""

NightMask(params, output) ==
    [ i \in 1..Len(output) |->
        MulMask(output[i], to_mult(params, Len(output), i - 1)) ]

\* ------------------------------------------------------- force_solar_zero

SeqMax(q) == SetMax({ q[i] : i \in 1..Len(q) })

\* output.max() * 0.05; np.max of an array holding a nan is nan
threshold_zero(output) ==
    IF \E i \in 1..Len(output) : IsNaN(output[i]) THEN NaN
    ELSE (SeqMax(output) * 50) \div SCALE

\* the hours of dts_hours[output >= threshold_zero]; a comparison with nan
\* is False
HoursAbove(params, output, thr) ==
    { dts_hours(params, i - 1) :
        i \in { j \in 1..Len(output) :
                  ~IsNaN(output[j]) /\ ~IsNaN(thr) /\ output[j] >= thr } }

\* output[dts_hours >= max_hour_seen_non_zero] = 0.
ZeroLate(params, output, max_hour) ==
    [ i \in 1..Len(output) |->
        IF dts_hours(params, i - 1) >= max_hour THEN 0 ELSE output[i] ]

\* output[dts_hours <= min_hour_seen_non_zero] = 0.
ZeroEarly(params, output, min_hour) ==
    [ i \in 1..Len(output) |->
        IF dts_hours(params, i - 1) <= min_hour THEN 0 ELSE output[i] ]

\* the whole step: [err, output]
ForceSolarZero(params, output) ==
    LET thr   == threshold_zero(output)
        late  == HoursAbove(params, output, thr)
        out1  == ZeroLate(params, output,
                          SetMax(late) + params["force_solar_zero"])
        early == HoursAbove(params, out1, thr)
    IN  IF late = {} THEN [err |-> "empty_reduce", output |-> output]
        ELSE IF early = {} THEN [err |-> "empty_reduce", output |-> out1]
        ELSE [err |-> "",
              output |-> ZeroEarly(params, out1,
                                   SetMin(early) - params["force_solar_zero"])]

\* -------------------------------------------------- compute_solar_pattern

\* what a call ends with when it raises: no array
Raised(e, pat, nrep) ==
    [err |-> e, output |-> << >>, interp |-> << >>, pat |-> pat,
     N_repet |-> nrep, x_len |-> TPatternLen(nrep),
     y_len |-> StackedLen(pat.n, nrep)]

\* line 242: the call returns output unless force_solar_zero raised
ReturnPattern(pat, nrep, interp, forced) ==
    IF forced.err # "" THEN Raised(forced.err, pat, nrep)
    ELSE [err |-> "", output |-> forced.output, interp |-> interp, pat |-> pat,
          N_repet |-> nrep, x_len |-> TPatternLen(nrep),
          y_len |-> StackedLen(pat.n, nrep)]

\* lines 226-239, masked being output after the night mask
ForceStage(params, pat, nrep, interp, masked) ==
    ReturnPattern(pat, nrep, interp,
                  IF Has(params, "force_solar_zero")
                  THEN ForceSolarZero(params, masked)
                  ELSE [err |-> "", output |-> masked])

\* lines 188-224, interp being output after the clipping, mask_err the error
\* the mask ends with
MaskStage(params, pat, nrep, interp, mask_err) ==
    IF ~Has(params, "solar_night_hour")
    THEN ForceStage(params, pat, nrep, interp, interp)
    ELSE IF mask_err # "" THEN Raised(mask_err, pat, nrep)
    ELSE ForceStage(params, pat, nrep, interp, NightMask(params, interp))

\* lines 170-182: the axis, the interpolant and its values at t_inter
InterpStage(params, pat, tol, nrep) ==
    IF ~InterpFitOK(TPatternLen(nrep), StackedLen(pat.n, nrep))
    THEN Raised("xy_length", pat, nrep)
    ELSE IF \E i \in 0..(Nt_inter(params) - 1) :
                ~InterpInRange(TPatternLen(nrep), t_inter(params, i))
    THEN Raised("out_of_range", pat, nrep)
    ELSE MaskStage(params, pat, nrep,
                   [ i \in 1..Nt_inter(params) |->
                       Clip(f2(pat, TPatternLen(nrep), t_inter(params, i - 1)), tol) ],
                   IF Has(params, "solar_night_hour")
                   THEN NightMaskErr(params, Nt_inter(params)) ELSE "")

\* lines 159-242, solar_pattern being the array the zonal branch leaves
ResamplePattern(params, pat, tol) ==
    InterpStage(params, pat, tol,
                N_repet(Nt_inter_hr(MinutesSinceStartYear(params, params.end_date)),
                        pat.n))

NoPattern == [zonal |-> FALSE, n |-> 1, src |-> << >>, lo |-> 0, hi |-> 0]

\* compute_solar_pattern(params, solar_pattern, tol): err is "" when the call
\* returns `output`; the other fields are the values of its local variables
compute_solar_pattern(params, solar_pattern, tol) ==
    IF UseZonal(params)
    THEN IF InsufficientData(solar_pattern.n)
         THEN Raised("insufficient_data", NoPattern, 0)
         ELSE IF ~ReshapeOK(Truncate(solar_pattern))
         THEN Raised("reshape", NoPattern, 0)
         ELSE ResamplePattern(params, ZonalPattern(Truncate(solar_pattern)), tol)
    ELSE ResamplePattern(params, LegacyPattern(solar_pattern), tol)

\* ------------------------------------------------------ random generator
\* prng is a numpy RandomState: its draws are a function of its state, and a
\* draw moves the state on.  The model's generator is a linear congruential
\* one; np_random, numpy's global generator, is a second one of the kind.

PrngModulus == 65537

PrngNext(state) == (75 * state + 74) % PrngModulus

RECURSIVE PrngAfter(_, _)
\* the state after k draws
PrngAfter(state, k) == IF k = 0 THEN state ELSE PrngNext(PrngAfter(state, k - 1))

\* the k-th value (from 1) of generator.uniform(0, high, shape): in [0, high)
Uniform(state, high, k) == (PrngAfter(state, k) * high) \div PrngModulus

Generator_Global(prng, global) == global

\* the generator the series functions draw from: the argument prng, not the
\* global one
Generator(prng, global) == prng

\* ----------------------------------------------------------------- smooth

pol_NoComplement(x, alpha, beta) == IF IsNaN(x) THEN NaN ELSE NpExp(0 - x)

\* def pol(x, alpha, beta): return 1 - np.exp(-x)
pol(x, alpha, beta) == IF IsNaN(x) THEN NaN ELSE SCALE - NpExp(0 - x)

\* smooth(signal) as the series functions call it: alpha = 0.5, beta = 1 / alpha
smooth(x) == pol(x, 500, 2000)

\* if beta is None: beta = 1 / alpha; 1 / 0 raises ZeroDivisionError
BetaRaises(alpha, has_beta) == ~has_beta /\ alpha = 0

\* smooth(x, alpha, beta) on an array x: err and the array returned
smooth_array(x, alpha, has_beta, beta) ==
    IF BetaRaises(alpha, has_beta)
    THEN [err |-> "zero_division", output |-> << >>]
    ELSE LET b == IF has_beta THEN beta ELSE (SCALE * SCALE) \div alpha
         IN  [err |-> "", output |-> [ i \in 1..Len(x) |-> pol(x[i], alpha, b) ]]

\* signal[signal < tol] = 0.
ZeroBelowTol(v, tol) == IF ~IsNaN(v) /\ v < tol THEN 0 ELSE v

\* series = Pmax * signal; series[series > 0.95 * Pmax] = 0.95 * Pmax
CapSeries(Pmax, sig) ==
    LET v   == IF IsNaN(sig) THEN NaN ELSE FMul(Pmax, sig)
        cap == (950 * Pmax) \div SCALE
    IN  IF ~IsNaN(v) /\ v > cap THEN cap ELSE v

\* utils.interpolate_noise(noise, params, locations, time_scale, add_dim): the
\* noise sample brought to the time grid, one value per time step
interpolate_noise(noise, params) ==
    [ i \in 1..Nt_inter(params) |-> noise[((i - 1) % Len(noise)) + 1] ]

\* --------------------------------------------------- compute_solar_series

\* params["mean_solar_pattern"], 0.75 if absent
mean_solar_pattern(params) ==
    IF Has(params, "mean_solar_pattern") THEN params["mean_solar_pattern"] ELSE 750

SolarSignal_UnitStd(params, pattern_i, noise_i) ==
    IF IsNaN(pattern_i) THEN NaN
    ELSE FMul(pattern_i, mean_solar_pattern(params) + noise_i)

\* signal = solar_pattern * (mean_solar_pattern + std_solar_noise * final_noise)
SolarSignal(params, pattern_i, noise_i) ==
    IF IsNaN(pattern_i) THEN NaN
    ELSE FMul(pattern_i,
              mean_solar_pattern(params) + FMul(params.std_solar_noise, noise_i))

\* signal += prng.uniform(0, smoothdist, signal.shape)
AddUniform(sig, u) == IF IsNaN(sig) THEN NaN ELSE sig + u

\* lines 100-120, pat being what compute_solar_pattern ended with
SolarSeriesOf(gen, prng, Pmax, final_noise, params, smoothdist, tol, pat) ==
    IF pat.err # ""
    THEN [err |-> pat.err, series |-> << >>, pat |-> pat, prng |-> prng]
    ELSE [err |-> "",
          series |-> [ i \in 1..Len(pat.output) |->
                         CapSeries(Pmax,
                           smooth(ZeroBelowTol(
                             AddUniform(SolarSignal(params, pat.output[i],
                                                    final_noise[i]),
                                        Uniform(gen, smoothdist, i)),
                             tol))) ],
          pat |-> pat,
          prng |-> PrngAfter(prng, Len(pat.output))]

\* the call: err, the series, the pattern call's record, the generator after
compute_solar_series(prng, global, Pmax, solar_noise, params, smoothdist, solar_pattern, tol) ==
    SolarSeriesOf(Generator(prng, global), prng, Pmax,
                  interpolate_noise(solar_noise, params), params, smoothdist, tol,
                  compute_solar_pattern(params, solar_pattern, tol))

\* ---------------------------------------------------- compute_wind_series

\* whole days from 2018-01-01 to 1 January of year y
DaysSince2018(y) == (y - 2018) * 365 + ((y - 1) \div 4 - 504)

\* int(pd.Timedelta(start_date - 2018-01-01).total_seconds() // 60)
MinutesSince2018(date) == DaysSince2018(date.year) * MinutesPerDay + date.min

MinutesPerYear == 525600

\* sin of d degrees, 0 <= d <= 180 (Bhaskara's rational form, within 0.002)
SinHalfTurn(d) == (SCALE * 4 * d * (180 - d)) \div (40500 - d * (180 - d))

\* np.cos of 2 * pi * m / (365 * 24 * 60), to the degree
CosOfMinute(m) ==
    LET d == (((m % MinutesPerYear) * 360) \div MinutesPerYear + 90) % 360
    IN  IF d <= 180 THEN SinHalfTurn(d) ELSE 0 - SinHalfTurn(d - 180)

\* seasonal_pattern[i], i from 0
seasonal_pattern(params, i) ==
    CosOfMinute(Linspace(0, params.T, Nt_inter(params), i)
                  - 30 * 24 * 60 + MinutesSince2018(params.start_date))

\* signal = (0.7 + 0.3 * seasonal) * (0.3 + std_m * medium + std_l * long)
\*          + std_short * short; signal = 1e-1 * np.exp(4 * signal)
WindSignal(params, seasonal, long, medium, short) ==
    LET base == FMul(700 + FMul(300, seasonal),
                     300 + FMul(params.std_medium_wind_noise, medium)
                         + FMul(params.std_long_wind_noise, long))
                  + FMul(params.std_short_wind_noise, short)
    IN  NpExp(4 * base) \div 10

compute_wind_series(prng, global, Pmax, long_noise, medium_noise, short_noise, params, smoothdist, tol) ==
    LET long_scale_signal   == interpolate_noise(long_noise, params)
        medium_scale_signal == interpolate_noise(medium_noise, params)
        short_scale_signal  == interpolate_noise(short_noise, params)
        nt  == Nt_inter(params)
        gen == Generator(prng, global)
        series == [ i \in 1..nt |->
                      CapSeries(Pmax,
                        smooth(ZeroBelowTol(
                          AddUniform(WindSignal(params, seasonal_pattern(params, i - 1),
                                                long_scale_signal[i],
                                                medium_scale_signal[i],
                                                short_scale_signal[i]),
                                     Uniform(gen, smoothdist, i)),
                          tol))) ]
    IN  [err |-> "", series |-> series, prng |-> PrngAfter(prng, nt)]

\* ------------------------------------------------- objects and aliasing

\* the names the functions bind: their parameters and their local variables
LocalNames ==
    { "x", "prng", "locations", "params", "solar_pattern", "solar_noise",
      "long_noise", "medium_noise", "short_noise", "power_values",
      "power_reshaped", "average_pattern", "stacked_solar_pattern", "t_pattern",
      "f2", "t_inter", "output", "dts_hours", "to_mult", "left_", "right_",
      "solar_night_hour", "all_left", "all_right", "tmp_", "final_noise",
      "signal", "solar_series", "wind_series", "long_scale_signal",
      "medium_scale_signal", "short_scale_signal", "t", "seasonal_pattern" }

\* var = <expression or call that builds a new object>
New(var) == [op |-> "new", var |-> var, src |-> var]

\* var = src: the same object under a second name
Alias(var, src) == [op |-> "alias", var |-> var, src |-> src]

\* var = src[:n], var = src.reshape(...): a view of the same buffer
View(var, src) == [op |-> "view", var |-> var, src |-> src]

\* var[...] = value, var += value, var *= value: the object is written
Store(var) == [op |-> "store", var |-> var, src |-> var]

\* prng.uniform(...): the state of the generator object is written
Draw == [op |-> "store", var |-> "prng", src |-> "prng"]

\* var = f(args): body is what f executes, bind its parameters' arguments
Call(var, body, bind, ret) ==
    [op |-> "call", var |-> var, src |-> ret, body |-> body, bind |-> bind]

\* the names of a function at its entry: parameters bound to the caller's
\* objects, nothing else bound
Entry(bind, env) ==
    [ n \in LocalNames |-> IF n \in DOMAIN bind THEN env[bind[n]] ELSE "unbound" ]

RECURSIVE Exec(_, _, _)

\* the statements executed in order: the bindings at the end and the objects
\* written on the way
Exec(stmts, env, written) ==
    IF stmts = << >> THEN [env |-> env, written |-> written]
    ELSE LET st == Head(stmts)
         IN  IF st.op = "new"
             THEN Exec(Tail(stmts), [env EXCEPT ![st.var] = "local"], written)
             ELSE IF st.op \in { "alias", "view" }
             THEN Exec(Tail(stmts), [env EXCEPT ![st.var] = env[st.src]], written)
             ELSE IF st.op = "store"
             THEN Exec(Tail(stmts), env, written \cup { env[st.var] })
             ELSE LET r == Exec(st.body, Entry(st.bind, env), { })
                  IN  Exec(Tail(stmts), [env EXCEPT ![st.var] = r.env[st.src]],
                           written \cup r.written)

\* the objects a call writes, the caller holding each argument under the
\* parameter's name
WrittenBy(body, parameters) ==
    Exec(body, [ n \in LocalNames |-> IF n \in parameters THEN n ELSE "unbound" ],
         { }).written

Body_smooth_InPlace(raises) == << Store("x") >>

\* smooth, lines 313-331: x = copy.deepcopy(x); beta = 1 / alpha; x = pol(x)
Body_smooth(raises) ==
    IF raises THEN << New("x") >> ELSE << New("x"), New("x") >>

\* compute_solar_pattern, lines 138-156
ZonalStatements(err) ==
    IF err = "insufficient_data" THEN << Alias("power_values", "solar_pattern") >>
    ELSE << Alias("power_values", "solar_pattern"),
            View("power_values", "power_values"),
            View("power_reshaped", "power_values") >>
         \o (IF err = "reshape" THEN << >>
             ELSE << New("average_pattern"), New("solar_pattern") >>)

\* lines 164-182
ResampleStatements(err, n_repet) ==
    << Alias("stacked_solar_pattern", "solar_pattern") >>
    \o (IF n_repet > 1 THEN << New("stacked_solar_pattern") >> ELSE << >>)
    \o << New("t_pattern") >>
    \o (IF err = "xy_length" THEN << >>
        ELSE << New("f2"), New("t_inter") >>
             \o (IF err = "out_of_range" THEN << >>
                 ELSE << New("output"), New("output"), Store("output") >>))

\* lines 188-224
NightStatements(err) ==
    << New("dts_hours"), New("to_mult"), Store("to_mult"), New("left_"),
       New("right_"), New("solar_night_hour") >>
    \o (IF err # "" THEN << >>
        ELSE << New("all_left"), New("tmp_"), Store("tmp_"), Store("to_mult"),
                New("all_right"), New("tmp_"), Store("tmp_"), Store("to_mult"),
                Store("output") >>)

\* lines 226-239
ForceStatements(err) ==
    << New("dts_hours") >>
    \o (IF err # "" THEN << >> ELSE << Store("output"), Store("output") >>)

\* the statements compute_solar_pattern executed in a call that ended with
\* res
Body_compute_solar_pattern(params, res) ==
    LET early == res.err \in { "insufficient_data", "reshape" }
        mid   == res.err \in { "xy_length", "out_of_range" }
        night == IF Has(params, "solar_night_hour")
                 THEN NightMaskErr(params, Nt_inter(params)) ELSE ""
    IN  (IF UseZonal(params) THEN ZonalStatements(res.err) ELSE << >>)
        \o (IF early THEN << >> ELSE ResampleStatements(res.err, res.N_repet))
        \o (IF early \/ mid \/ ~Has(params, "solar_night_hour") THEN << >>
            ELSE NightStatements(night))
        \o (IF early \/ mid \/ night # "" \/ ~Has(params, "force_solar_zero")
            THEN << >> ELSE ForceStatements(res.err))

\* compute_solar_series, lines 94-116
Body_compute_solar_series(params, res) ==
    << New("final_noise"),
       Call("solar_pattern", Body_compute_solar_pattern(params, res.pat),
            ("params" :> "params") @@ ("solar_pattern" :> "solar_pattern"),
            "output") >>
    \o (IF res.err # "" THEN << >>
        ELSE << New("signal"), Draw, Store("signal"), Store("signal"),
                Call("signal", Body_smooth(FALSE), ("x" :> "signal"), "x"),
                New("solar_series"), Store("solar_series") >>)

\* compute_wind_series, lines 30-71
Body_compute_wind_series ==
    << New("long_scale_signal"), New("medium_scale_signal"),
       New("short_scale_signal"), New("t"), New("seasonal_pattern"),
       New("signal"), Store("signal"), New("signal"), Draw, Store("signal"),
       Store("signal"),
       Call("signal", Body_smooth(FALSE), ("x" :> "signal"), "x"),
       New("wind_series"), Store("wind_series") >>

\* ----------------------------------------- compute_solar_patterns_by_zone

\* the limits the code clamps end_year to
LastYear == 2023

FirstEndYear == 2011

end_year_NoLowerClamp(y) == IF y > LastYear THEN LastYear ELSE y

\* end_year = params['start_date'].year, clamped
end_year(y) ==
    IF y > LastYear THEN LastYear
    ELSE IF y < FirstEndYear THEN FirstEndYear
    ELSE y

\* start_year = end_year - 4
start_year(e) == e - 4

ValidCoordinates_Strict(lat, lon) == -90 < lat /\ lat < 90 /\ -180 < lon /\ lon < 180

\* -90 <= lat <= 90 and -180 <= lon <= 180
ValidCoordinates(lat, lon) == -90 <= lat /\ lat <= 90 /\ -180 <= lon /\ lon <= 180

\* the request of one zone: requests.get(url)
Request(k, zone, y) ==
    [zone |-> k, lat |-> zone.lat, lon |-> zone.lon,
     startyear |-> start_year(end_year(y)), endyear |-> end_year(y)]

\* what the call ends with when it raises: the caller gets no mapping
ZonesRaised(e, requests) == [err |-> e, solar_data |-> << >>, requests |-> requests]

RECURSIVE FetchZones(_, _, _, _, _)

\* the loop over solar_zones from zone k on: validate, request,
\* raise_for_status, read_csv, store the second column
FetchZones(zones, k, y, solar_data, requests) ==
    IF k > Len(zones)
    THEN [err |-> "", solar_data |-> solar_data, requests |-> requests]
    ELSE IF ~ValidCoordinates(zones[k].lat, zones[k].lon)
    THEN ZonesRaised("invalid_coordinates", requests)
    ELSE IF zones[k].resp.status # 200
    THEN ZonesRaised("http_error", Append(requests, Request(k, zones[k], y)))
    ELSE IF zones[k].resp.rows = 0
    THEN ZonesRaised("empty_data", Append(requests, Request(k, zones[k], y)))
    ELSE FetchZones(zones, k + 1, y,
                    Append(solar_data, [zone |-> k, n |-> zones[k].resp.rows]),
                    Append(requests, Request(k, zones[k], y)))

\* compute_solar_patterns_by_zone(prods_charac, params): zones are the solar
\* zones with their coordinates and the response the service gives, y is
\* params['start_date'].year
compute_solar_patterns_by_zone(zones, y) == FetchZones(zones, 1, y, << >>, << >>)

\* --------------------------------------------------------------- create_csv

\* the orders sort_index(ascending=True) can leave n rows in: ascending by
\* datetime, rows of equal datetime in any order
SortedOrders(datetimes) ==
    { p \in [1..Len(datetimes) -> 1..Len(datetimes)] :
        /\ \A a, b \in 1..Len(datetimes) : a # b => p[a] # p[b]
        /\ \A a, b \in 1..Len(datetimes) : a < b => datetimes[p[a]] <= datetimes[p[b]] }

\* df.sort_index(ascending=True) in the order p: a row keeps its label (the
\* input row its datetime comes from) and its values (src, the input row
\* its values come from)
sort_index(datetimes, p) ==
    [k \in 1..Len(datetimes) |->
        [datetime |-> datetimes[p[k]], label |-> p[k], src |-> p[k], noised |-> FALSE]]

head_DropFirst(df, n) == SubSeq(df, 2, Len(df))

\* df.head(n): the first n rows, all of them but the last -n for n < 0
head(df, n) == IF n >= 0 THEN SubSeq(df, 1, n) ELSE SubSeq(df, 1, Len(df) + n)

\* df *= (1 + noise * prng.normal(0, 1, df.shape))
MulNoise(df) == [k \in 1..Len(df) |-> [df[k] EXCEPT !.noised = TRUE]]

\* df.shift(-1).fillna(0): the values move one row up, the index stays, the
\* last row is filled with 0 (src 0)
ShiftFill(df) ==
    [k \in 1..Len(df) |->
        IF k < Len(df)
        THEN [df[k] EXCEPT !.src = df[k + 1].src, !.noised = df[k + 1].noised]
        ELSE [df[k] EXCEPT !.src = 0, !.noised = FALSE]]

\* create_csv(prng, dict_, path, noise=..., shift=...) for a table of one
\* value column whose sort leaves the order p; draws is what prng.normal
\* consumed, file the rows written with index=False
create_csv(datetimes, p, has_noise, shift) ==
    LET sorted == sort_index(datetimes, p)
        kept   == head(sorted, Len(sorted) - 1)
        noisy  == IF has_noise THEN MulNoise(kept) ELSE kept
        df     == IF shift THEN ShiftFill(noisy) ELSE noisy
    IN  [err |-> "", df |-> df,
         draws |-> IF has_noise THEN Len(kept) ELSE 0,
         file |-> [k \in 1..Len(df) |-> df[k].src]]

\* ------------------------------------ GeneratorBackend.get_config_managers

\* the input files the config managers are told to require
GeneralFiles == { "case/loads_charac.csv", "case/prods_charac.csv", "case/params.json" }

LoadFiles ==
    { "case/loads_charac.csv", "case/params_load.json",
      "patterns/load_weekly_pattern.csv" }

DispatchFiles ==
    { "case/prods_charac.csv", "case/params_res.json", "case/params_opf.json" }

\* files_case and files_pattern of the renewable manager
ResFiles(use_zonal) ==
    IF use_zonal
    THEN { "case/prods_charac.csv", "case/params_res.json", "case/solar_coord.json" }
    ELSE { "case/prods_charac.csv", "case/params_res.json",
           "patterns/solar_pattern.npy" }

\* ConfigManager.validate_configuration(): every required input file is there
validate_configuration(files, required) == required \subseteq files

DetectZonal_FromCoordFile(files, flag) == "case/solar_coord.json" \in files

\* use_zonal as detected: the flag of params_res.json, False when the file
\* is not there (FileNotFoundError caught) or has no such key
DetectZonal(files, flag) == "case/params_res.json" \in files /\ flag = "true"

\* the 'R' branch: the error it ends with, "" if none
ResStageErr(files, use_zonal) ==
    IF ~validate_configuration(files, ResFiles(use_zonal)) THEN "validation"
    ELSE IF use_zonal /\ "case/solar_coord.json" \notin files THEN "file_not_found"
    ELSE ""

\* the error get_config_managers ends with, the stages in the order of the code
ConfigErr(files, use_zonal, mode) ==
    IF ~validate_configuration(files, GeneralFiles) THEN "validation"
    ELSE IF "L" \in mode /\ ~validate_configuration(files, LoadFiles) THEN "validation"
    ELSE IF "R" \in mode /\ ResStageErr(files, use_zonal) # ""
    THEN ResStageErr(files, use_zonal)
    ELSE IF "T" \in mode /\ ~validate_configuration(files, DispatchFiles)
    THEN "validation"
    ELSE ""

\* RenewableBackend.run: the single .npy pattern is read in legacy mode only
base_solar_pattern(use_zonal) == IF ~use_zonal THEN "read_specific" ELSE "None"

\* get_config_managers(input_folder, case, output_folder, mode): err, the
\* managers returned, and for the renewable stage the mode detected, the
\* files required and whether coordinates were put into prods_charac
get_config_managers(files, flag, mode) ==
    LET use_zonal == "R" \in mode /\ DetectZonal(files, flag)
        err       == ConfigErr(files, use_zonal, mode)
    IN  [err |-> err,
         managers |-> IF err = "" THEN { "G" } \cup mode ELSE { },
         use_zonal |-> use_zonal,
         required |-> IF "R" \in mode THEN ResFiles(use_zonal) ELSE { },
         coordinates |-> err = "" /\ use_zonal,
         base_solar_pattern |-> base_solar_pattern(use_zonal)]

\* ------------------------------------------------- GeneratorBackend.run

\* the stages in the order of the if statements of the loop body
StageOrder == << "L", "R", "D", "T" >>

\* 'X' in mode
Letters(mode) == { mode[j] : j \in 1..Len(mode) }

IsStage(l) == l \in { "L", "R", "D", "T" }

StagesOf_ModeOrder(mode) == SelectSeq(mode, IsStage)

\* the stages one scenario goes through, in the order the loop body tests them
StagesOf(mode) ==
    LET Selected(l) == l \in Letters(mode)
    IN  SelectSeq(StageOrder, Selected)

\* the length of the seed lists: generate_seeds for n_scenarios >= 2, one
\* seed otherwise
NumScenarios(n_scenarios) == IF n_scenarios >= 2 THEN n_scenarios ELSE 1

\* the local names a stage's call passes, and those its result is bound to
Reads(l) == IF l \in { "D", "T" } THEN { "load", "prod_solar", "prod_wind" } ELSE { }

Binds(l) ==
    IF l = "L" THEN { "load", "load_forecasted" }
    ELSE IF l = "R"
    THEN { "prod_solar", "prod_solar_forecasted", "prod_wind", "prod_wind_forecasted" }
    ELSE IF l = "T" THEN { "dispatch_results" }
    ELSE { }

ArgsBound_Always(bound, names) == TRUE

\* evaluating the arguments of a call: a local name never assigned raises
\* UnboundLocalError
ArgsBound(bound, names) == names \subseteq bound

LossAfterD_Stored(loss, produced) == produced

\* the local loss after self.do_d(...): the value returned is not assigned
LossAfterD(loss, produced) == loss

\* do_l and do_r build their backend with write_results=True
WritesResults(l) == l \in { "L", "R" }

Event(s, l, ev) == [scenario |-> s, stage |-> l, ev |-> ev]

\* the locals of run before the loop: loss = None, nothing else bound
BeforeLoop ==
    [err |-> "", log |-> << >>, written |-> { }, bound |-> { "loss" },
     loss |-> "None", passed |-> << >>]

\* one if statement of the loop body, for scenario s and a letter of the
\* mode; backend is whether dispatch_backend_class is set, fail the call
\* (scenario, stage) whose backend raises
RunStage(st, s, l, backend, fail) ==
    IF l = "T" /\ ~backend
    THEN [st EXCEPT !.log = Append(@, Event(s, l, "warn"))]
    ELSE IF ~ArgsBound(st.bound, Reads(l))
    THEN [st EXCEPT !.err = "unbound_local",
                    !.log = Append(@, Event(s, l, "unbound"))]
    ELSE IF fail = << s, l >>
    THEN [st EXCEPT !.err = "backend",
                    !.log = Append(Append(@, Event(s, l, "call")), Event(s, l, "raise")),
                    !.passed = IF l = "T"
                               THEN Append(@, [scenario |-> s, loss |-> st.loss])
                               ELSE @]
    ELSE [st EXCEPT !.log = Append(Append(@, Event(s, l, "call")), Event(s, l, "return")),
                    !.written = IF WritesResults(l) THEN @ \cup { << s, l >> } ELSE @,
                    !.bound = @ \cup Binds(l),
                    !.loss = IF l = "D" THEN LossAfterD(@, "loss_chronic") ELSE @,
                    !.passed = IF l = "T"
                               THEN Append(@, [scenario |-> s, loss |-> st.loss])
                               ELSE @]

RECURSIVE RunFrom(_, _, _, _, _, _)

\* the loop over the seeds from step j on, a step being one selected stage
\* of one scenario; an exception ends the loop
RunFrom(st, j, stages, n, backend, fail) ==
    IF st.err # "" \/ j >= n * Len(stages)
    THEN st
    ELSE RunFrom(RunStage(st, (j \div Len(stages)) + 1, stages[(j % Len(stages)) + 1],
                          backend, fail),
                 j + 1, stages, n, backend, fail)

\* run(case, n_scenarios, ..., mode): the configuration is loaded first; the
\* result is what the loop left and whether run returned
run(files, flag, mode, n_scenarios, backend, fail) ==
    LET config == get_config_managers(files, flag, { l \in Letters(mode) : IsStage(l) })
        st     == IF config.err # "" THEN [BeforeLoop EXCEPT !.err = config.err]
                  ELSE RunFrom(BeforeLoop, 0, StagesOf(mode),
                               NumScenarios(n_scenarios), backend, fail)
    IN  [err |-> st.err, configured |-> config.err = "", log |-> st.log,
         written |-> st.written, bound |-> st.bound, loss |-> st.loss,
         passed |-> st.passed, returned |-> st.err = ""]

\* ----------------------------------------------------------------- inputs

\* bounds of the model
MaxRuns == 2

MaxGlobalDraws == 1

MaxNoise == 1

MaxDays == 2

\* the hourly shapes of one day the stored values are built from
DayBell  == << 0, 0, 0, 0, 0, 0, 100, 300, 500, 700, 900, 1000,
               1000, 900, 700, 500, 300, 100, 0, 0, 0, 0, 0, 0 >>

DayFlat  == [ h \in 1..24 |-> 500 ]

DayZero  == [ h \in 1..24 |-> 0 ]

DaySpike == [ h \in 1..24 |-> IF h = 13 THEN 1000 ELSE 0 ]

NoYears  == << 0, 0, 0, 0 >>

Array(n, day, yr, tail) ==
    [n |-> n, off |-> 0, day |-> day, yr |-> yr, tail |-> tail]

\* legacy profiles: 8760 values, and shorter ones
LegacyProfiles(days) ==
    { Array(n, d, NoYears, 0) : n \in {hours_per_year, 4380, 24}, d \in days }

\* raw zonal irradiance: one value short of four years, four years, one more
ZonalArrays(days) ==
    { Array(n, d, yr, tail) :
        n \in { n_years * hours_per_year - 1, n_years * hours_per_year,
                n_years * hours_per_year + 1 },
        d \in days, yr \in { NoYears, << 0, 100, 200, 300 >> },
        tail \in { 0, 5000 } }

\* the time grid: end_date - start_date == T
TimeGrid(year, start_min, T, dt) ==
    [T |-> T, dt |-> dt,
     start_date |-> [year |-> year, min |-> start_min],
     end_date   |-> [year |-> year, min |-> start_min + T]]

DayHorizons == UNION { { d * MinutesPerDay, d * MinutesPerDay + 720 } : d \in 1..MaxDays }

Horizons == { 30, 100, 1380, 1410 } \cup DayHorizons

Grids(starts, horizons, steps) ==
    { TimeGrid(st[1], st[2], T, dt) : st \in starts, T \in horizons, dt \in steps }

\* 1 January 00:00, 1 January 06:30, 31 December 00:00 of a 365-day year,
\* 31 December 00:00 of a 366-day year
YearStart == << 2019, 0 >>

MidHour   == << 2019, 390 >>

YearEnd   == << 2019, 524160 >>

LeapEnd   == << 2020, 525600 >>

SpecNight == << 22, 23, 0, 1, 2, 3, 4, 5 >>

NightLists == { SpecNight, << 12, 13 >>, << 11, 12 >>,
                << 0, 1, 2, 3, 4, 5, 6, 20, 21, 22, 23 >> }

WithNight(ps) == { p @@ ("solar_night_hour" :> l) : p \in ps, l \in NightLists }

WithForce(ps, margins) ==
    { p @@ ("force_solar_zero" :> m) : p \in ps, m \in margins }

WithZonal(ps) == { p @@ ("use_zonal_solar_pattern" :> TRUE) : p \in ps }

WithSolarStd(ps) ==
    { p @@ ("std_solar_noise" :> sd) : p \in ps, sd \in { 0, SCALE } }

\* compute_solar_pattern called on a legacy profile
LegacyCalls ==
    LET plain  == Grids({ YearStart, MidHour, YearEnd, LeapEnd }, Horizons, { 30, 60 })
        days   == Grids({ YearStart, MidHour }, DayHorizons \cup { 1500 },
                        { 30, 45, 60 })
        forced == Grids({ YearStart }, { MinutesPerDay }, { 30, 60 })
    IN  (plain \X LegacyProfiles({ DayBell, DayFlat }))
        \cup ((WithNight(days) \cup WithForce(WithNight(days), { 1 }))
                \X LegacyProfiles({ DayBell }))
        \cup (WithNight(days) \X { Array(hours_per_year, DayFlat, NoYears, 0) })
        \cup (WithForce(forced, { 0, 1, 2 })
                \X { Array(hours_per_year, d, NoYears, 0) :
                       d \in { DayBell, DayFlat, DayZero, DaySpike } })

\* compute_solar_pattern called on raw zonal irradiance
ZonalCalls ==
    LET grids == Grids({ YearStart, YearEnd }, { 100, 1410, MinutesPerDay }, { 30 })
    IN  (WithZonal(grids) \X ZonalArrays({ DayBell, DayFlat }))
        \cup ({ p @@ ("solar_night_hour" :> SpecNight) : p \in WithZonal(grids) }
                \X { Array(n_years * hours_per_year, d, NoYears, 0) :
                       d \in { DayBell, DayFlat } })

NoiseValues == { k * SCALE : k \in (0 - MaxNoise)..MaxNoise }

NoNoise == [solar |-> << 0 >>, long |-> << 0 >>, medium |-> << 0 >>, short |-> << 0 >>]

SolarNoises ==
    { [NoNoise EXCEPT !.solar = << a, b >>] : a \in NoiseValues, b \in { 0, SCALE } }

WindNoises ==
    { [NoNoise EXCEPT !.long = << l >>, !.medium = << m >>, !.short = << sh >>] :
        l \in NoiseValues, m \in { 0, SCALE }, sh \in { 0 - SCALE, 0 } }

\* compute_solar_series: the time grids run over 21:00-22:30 and 12:00-13:30
SolarCalls ==
    LET grids  == Grids({ << 2019, 720 >>, << 2019, 1260 >> }, { 60, 90 }, { 30 })
        means  == grids \cup { p @@ ("mean_solar_pattern" :> 500) : p \in grids }
        nights == { p @@ ("solar_night_hour" :> SpecNight) : p \in grids }
        legacy == WithSolarStd(means \cup nights)
                    \X { Array(hours_per_year, DayBell, NoYears, 0) }
                    \X SolarNoises
        zonal  == WithSolarStd(WithZonal(Grids({ << 2019, 720 >> }, { 60 }, { 30 })))
                    \X { Array(n_years * hours_per_year, d, NoYears, 0) :
                           d \in { DayBell, DayFlat } }
                    \X { [NoNoise EXCEPT !.solar = << 0 - SCALE, SCALE >>] }
    IN  legacy \cup zonal

WindStds ==
    { [std_long_wind_noise |-> sd[1], std_medium_wind_noise |-> sd[2],
       std_short_wind_noise |-> sd[3]] :
        sd \in { << 0, 0, 0 >>, << SCALE, SCALE, SCALE >>, << 500, 2000, 0 >> } }

WindCalls ==
    { p @@ sd : p \in Grids({ << 2019, 0 >>, << 2020, 262800 >> }, { 60 }, { 30 }),
                sd \in WindStds }
        \X WindNoises

Pmaxes == { 0, 1500 }

\* what the calls of the three series functions leave unused
NoArg == [kind |-> "none"]

\* a grid for the calls that take none
DefaultGrid == TimeGrid(2019, 0, 60, 30)

\* smooth: values below, at and above 0, up to where exp(-x) is below the
\* resolution; alpha and beta given or left to their defaults
SmoothValues == { -2000, -1, 0, 1, 500, 1000, 3000, 6000, 6900, 7000, 8000, 40000 }

\* every input file of a case, and the ones that may not be there
AllFiles == GeneralFiles \cup LoadFiles \cup DispatchFiles \cup ResFiles(TRUE)
                \cup ResFiles(FALSE) \cup { "case/params_loss.json" }

OptionalFiles ==
    { "case/params_res.json", "case/solar_coord.json", "patterns/solar_pattern.npy",
      "case/params_opf.json" }

\* get_config_managers: the files present, the value of
\* use_zonal_solar_pattern in params_res.json, the stages asked for
ConfigCalls ==
    { [kind |-> "config", files |-> AllFiles \ missing, flag |-> fl, mode |-> mo] :
        missing \in SUBSET OptionalFiles, fl \in { "absent", "false", "true" },
        mo \in { { "R" }, { "L", "R" }, { "L", "R", "T", "D" }, { "L" } } }

\* coordinates inside, on and outside the bounds
ZoneCoordinates ==
    { << 0, 0 >>, << 90, 180 >>, << -90, -180 >>, << 91, 0 >>, << -91, 0 >>,
      << 0, 181 >>, << 0, -181 >> }

\* what the service answers: five years of hours, four, fewer, nothing, an
\* error status
Responses ==
    { [status |-> 200, rows |-> 5 * hours_per_year + 24],
      [status |-> 200, rows |-> n_years * hours_per_year],
      [status |-> 200, rows |-> 100],
      [status |-> 200, rows |-> 0],
      [status |-> 500, rows |-> 0] }

SolarZones == { [lat |-> c[1], lon |-> c[2], resp |-> r] : c \in ZoneCoordinates, r \in Responses }

\* compute_solar_patterns_by_zone: one or two zones in 2019, and one zone in
\* every start year from 2000 to 2030
ZoneCalls ==
    { [kind |-> "zones", zones |-> zs, year |-> 2019] :
        zs \in { << a >> : a \in SolarZones } \cup { << a, b >> : a, b \in SolarZones } }
    \cup { [kind |-> "zones", year |-> y,
            zones |-> << [lat |-> 48, lon |-> 2,
                          resp |-> [status |-> 200, rows |-> 5 * hours_per_year + 24]] >>] :
            y \in 2000..2030 }

\* create_csv: tables of up to three rows in any datetime order, equal
\* datetimes included, with and without noise and shift
CsvCalls ==
    { [kind |-> "csv", datetimes |-> ds, has_noise |-> n, shift |-> sh] :
        ds \in UNION { [1..len -> 1..3] : len \in 0..3 },
        n \in BOOLEAN, sh \in BOOLEAN }

\* the modes run is called with: every order of the letters, a stage left
\* out, a letter that is no stage
Modes ==
    { << "L", "R", "D", "T" >>, << "T", "D", "R", "L" >>, << "L", "R", "T", "K" >>,
      << "L" >>, << "R" >>, << "D" >>, << "T" >>, << "K" >>,
      << "L", "T" >>, << "T", "L" >>, << "R", "T" >>, << "L", "D" >>, << "R", "D" >>,
      << "D", "T" >>, << "L", "R" >>, << "R", "L", "D" >> }

\* run: the mode, one to three scenarios, the dispatch backend set or None,
\* the stage call whose backend raises (none for scenario 0), the input
\* files all there or params.json missing
RunCalls ==
    { [kind |-> "run", mode |-> mo, n_scenarios |-> n, backend |-> b, fail |-> f,
       files |-> AllFiles \ missing, flag |-> "false"] :
        mo \in Modes, n \in 1..3, b \in BOOLEAN,
        f \in { << 0, "" >> } \cup ((1..2) \X { "L", "R", "D", "T" }),
        missing \in { { }, { "case/params.json" } } }

SmoothCalls ==
    { [kind |-> "smooth", x |-> << a, b >>, alpha |-> al, has_beta |-> hb[1], beta |-> hb[2]] :
        a \in SmoothValues, b \in SmoothValues, al \in { 0, 500 },
        hb \in { << FALSE, 0 >>, << TRUE, 0 >>, << TRUE, 2000 >> } }

Smoothdists == { 0, 200 }

\* ------------------------------------------------------------------ state

VARIABLES
    fn,             \* the function the caller calls
    params,         \* its arguments ...
    solar_pattern,
    noise,
    Pmax,
    smoothdist,
    tol,
    seed,           \* the state the caller creates the generator in
    prng,           \* the generator passed as prng
    np_random,      \* numpy's global generator: [state, drawn]
    arg,            \* the arguments of a call of one of the other functions
    runs            \* the calls made so far: [prng0, np0, res]

vars == << fn, params, solar_pattern, noise, Pmax, smoothdist, tol, seed, prng,
           np_random, arg, runs >>

inputs == << fn, params, solar_pattern, noise, Pmax, smoothdist, tol, seed, arg >>

InitPattern ==
    /\ fn = "pattern"
    /\ \E c \in LegacyCalls \cup ZonalCalls :
         /\ params = c[1]
         /\ solar_pattern = c[2]
    /\ noise = NoNoise
    /\ Pmax = 0
    /\ smoothdist = 0

InitSolar ==
    /\ fn = "solar"
    /\ \E c \in SolarCalls :
         /\ params = c[1]
         /\ solar_pattern = c[2]
         /\ noise = c[3]
    /\ Pmax \in Pmaxes
    /\ smoothdist \in Smoothdists

InitWind ==
    /\ fn = "wind"
    /\ \E c \in WindCalls :
         /\ params = c[1]
         /\ noise = c[2]
    /\ solar_pattern = Array(hours_per_year, DayZero, NoYears, 0)
    /\ Pmax \in Pmaxes
    /\ smoothdist \in Smoothdists

\* the variables of the series functions, for a call of another function
NoSeries ==
    /\ params = DefaultGrid
    /\ solar_pattern = Array(hours_per_year, DayZero, NoYears, 0)
    /\ noise = NoNoise
    /\ Pmax = 0
    /\ smoothdist = 0

InitSmooth ==
    /\ fn = "smooth"
    /\ arg \in SmoothCalls
    /\ NoSeries

InitConfig ==
    /\ fn = "config"
    /\ arg \in ConfigCalls
    /\ NoSeries

InitZones ==
    /\ fn = "zones"
    /\ arg \in ZoneCalls
    /\ NoSeries

InitCsv ==
    /\ fn = "csv"
    /\ arg \in CsvCalls
    /\ NoSeries

InitRun ==
    /\ fn = "run"
    /\ arg \in RunCalls
    /\ NoSeries

Init ==
    /\ \/ (InitPattern \/ InitSolar \/ InitWind) /\ arg = NoArg
       \/ InitSmooth
       \/ InitZones
       \/ InitCsv
       \/ InitRun
       \/ InitConfig
    /\ tol = 0
    /\ seed = 1
    /\ prng = seed
    /\ np_random = [state |-> 7, drawn |-> 0]
    /\ runs = << >>

Record(res, wrote) ==
    Append(runs, [prng0 |-> prng, np0 |-> np_random.state, res |-> res,
                  wrote |-> wrote])

\* the caller calls compute_solar_pattern(params, solar_pattern, tol)
CallSolarPattern ==
    /\ fn = "pattern"
    /\ Len(runs) < MaxRuns
    /\ LET res == compute_solar_pattern(params, solar_pattern, tol)
       IN  runs' = Record(res, WrittenBy(Body_compute_solar_pattern(params, res),
                                          { "params", "solar_pattern" }))
    /\ UNCHANGED << inputs, prng, np_random >>

\* the caller calls compute_solar_series(prng, ..., tol)
CallSolarSeries ==
    /\ fn = "solar"
    /\ Len(runs) < MaxRuns
    /\ LET res == compute_solar_series(prng, np_random.state, Pmax, noise.solar,
                                       params, smoothdist, solar_pattern, tol)
       IN  /\ runs' = Record(res, WrittenBy(Body_compute_solar_series(params, res),
                                              { "prng", "locations", "solar_noise",
                                                "params", "solar_pattern" }))
           /\ prng' = res.prng
    /\ UNCHANGED << inputs, np_random >>

\* the caller calls compute_wind_series(prng, ..., tol)
CallWindSeries ==
    /\ fn = "wind"
    /\ Len(runs) < MaxRuns
    /\ LET res == compute_wind_series(prng, np_random.state, Pmax, noise.long,
                                      noise.medium, noise.short, params,
                                      smoothdist, tol)
       IN  /\ runs' = Record(res, WrittenBy(Body_compute_wind_series,
                                              { "prng", "locations", "long_noise",
                                                "medium_noise", "short_noise",
                                                "params" }))
           /\ prng' = res.prng
    /\ UNCHANGED << inputs, np_random >>

\* the caller calls smooth(x, alpha, beta)
CallSmooth ==
    /\ fn = "smooth"
    /\ Len(runs) < MaxRuns
    /\ runs' = Record(smooth_array(arg.x, arg.alpha, arg.has_beta, arg.beta),
                      WrittenBy(Body_smooth(BetaRaises(arg.alpha, arg.has_beta)),
                                { "x" }))
    /\ UNCHANGED << inputs, prng, np_random >>

\* the caller calls get_config_managers(input_folder, case, output_folder, mode)
CallGetConfigManagers ==
    /\ fn = "config"
    /\ Len(runs) < MaxRuns
    /\ runs' = Record(get_config_managers(arg.files, arg.flag, arg.mode), { })
    /\ UNCHANGED << inputs, prng, np_random >>

\* the caller calls compute_solar_patterns_by_zone(prods_charac, params)
CallSolarPatternsByZone ==
    /\ fn = "zones"
    /\ Len(runs) < MaxRuns
    /\ runs' = Record(compute_solar_patterns_by_zone(arg.zones, arg.year), { })
    /\ UNCHANGED << inputs, prng, np_random >>

\* the caller calls create_csv(prng, dict_, path, noise=..., shift=...)
CallCreateCsv ==
    /\ fn = "csv"
    /\ Len(runs) < MaxRuns
    /\ \E p \in SortedOrders(arg.datetimes) :
         LET res == create_csv(arg.datetimes, p, arg.has_noise, arg.shift)
         IN  /\ runs' = Record(res, { })
             /\ prng' = PrngAfter(prng, res.draws)
    /\ UNCHANGED << inputs, np_random >>

\* the caller calls GeneratorBackend.run(case, n_scenarios, ..., mode)
CallRun ==
    /\ fn = "run"
    /\ Len(runs) < MaxRuns
    /\ runs' = Record(run(arg.files, arg.flag, arg.mode, arg.n_scenarios,
                          arg.backend, arg.fail), { })
    /\ UNCHANGED << inputs, prng, np_random >>

\* the caller creates the generator again from the same seed
Reseed ==
    /\ prng # seed
    /\ prng' = seed
    /\ UNCHANGED << inputs, np_random, runs >>

\* other code draws from numpy's global generator between two calls
GlobalDraw ==
    /\ fn \in { "solar", "wind" }
    /\ runs # << >>
    /\ np_random.drawn < MaxGlobalDraws
    /\ np_random' = [state |-> PrngNext(np_random.state),
                     drawn |-> np_random.drawn + 1]
    /\ UNCHANGED << inputs, prng, runs >>

Next ==
    \/ CallSolarPattern
    \/ CallSolarSeries
    \/ CallWindSeries
    \/ CallSmooth
    \/ CallGetConfigManagers
    \/ CallSolarPatternsByZone
    \/ CallCreateCsv
    \/ CallRun
    \/ Reseed
    \/ GlobalDraw

Spec == Init /\ [][Next]_vars

\* ----------------------------------------------------------------- claims

Runs == 1..Len(runs)

\* what compute_solar_pattern ended with in run i
PatternOf(i) == IF fn = "solar" THEN runs[i].res.pat ELSE runs[i].res

CallsPattern == fn \in { "pattern", "solar" }

\* the run got past the zonal branch, so N_repet and the axis exist
PastZonalBranch(i) == PatternOf(i).err \notin { "insufficient_data", "reshape" }

EndMin == params.end_date.min

InBounds(v) == ~IsNaN(v) /\ 0 <= v /\ v <= (950 * Pmax) \div SCALE

\* C1: with Pmax > 0 and tol = 0 every element of a series returned by
\* compute_wind_series or compute_solar_series lies in [0, 0.95 * Pmax].
C1_SeriesInBounds ==
    \A i \in Runs :
        (fn \in { "solar", "wind" } /\ Pmax > 0 /\ tol = 0 /\ runs[i].res.err = "")
            => \A k \in 1..Len(runs[i].res.series) : InBounds(runs[i].res.series[k])

\* C2: the array compute_solar_pattern returns has T // dt + 1 elements, with
\* or without solar_night_hour and force_solar_zero, and the series
\* compute_solar_series builds from it has the same length.
C2_LengthIsNt ==
    \A i \in Runs :
        /\ (fn = "pattern" /\ runs[i].res.err = "")
              => Len(runs[i].res.output) = params.T \div params.dt + 1
        /\ (fn = "solar" /\ runs[i].res.err = "")
              => /\ Len(runs[i].res.pat.output) = params.T \div params.dt + 1
                 /\ Len(runs[i].res.series) = Len(runs[i].res.pat.output)

\* a pattern of T // dt + 1 > 1 steps, T no multiple of dt, was returned with
\* both the night mask and force_solar_zero applied
C2_Witness ==
    /\ fn = "pattern"
    /\ Has(params, "solar_night_hour") /\ Has(params, "force_solar_zero")
    /\ params.T % params.dt # 0
    /\ \E i \in Runs : runs[i].res.err = "" /\ Len(runs[i].res.output) > 1

\* C3: two calls of compute_solar_series (compute_wind_series) made with the
\* generator in the same state and the same arguments end alike: same
\* series, same generator state after; whatever was drawn from numpy's
\* global generator in between changes nothing.
C3_SameGeneratorSameSeries ==
    \A i, j \in Runs :
        (fn \in { "solar", "wind" } /\ runs[i].prng0 = runs[j].prng0)
            => runs[i].res = runs[j].res

\* two calls from the same generator state, the global generator in two
\* different states, returned a series with noise drawn (smoothdist > 0)
C3_Witness ==
    /\ fn \in { "solar", "wind" }
    /\ smoothdist > 0
    /\ \E i, j \in Runs :
          /\ i # j
          /\ runs[i].prng0 = runs[j].prng0
          /\ runs[i].np0 # runs[j].np0
          /\ runs[i].res.err = ""
          /\ runs[i].res.series # << >>

\* the minimum and maximum over the year of the mean of the first four
\* year-rows of the stored values
FirstYearsMeans(a) ==
    { (Stored(a, h) + Stored(a, h + hours_per_year)
         + Stored(a, h + 2 * hours_per_year)
         + Stored(a, h + 3 * hours_per_year)) \div 4 : h \in 0..8759 }

NightSet == { params["solar_night_hour"][j] : j \in 1..Len(params["solar_night_hour"]) }

\* the list has an hour <= 12 and an hour >= 12
NightListUsable ==
    /\ Has(params, "solar_night_hour")
    /\ \E h \in NightSet : h <= 12
    /\ \E h \in NightSet : h >= 12

\* neither the hour after the last morning night hour nor the hour before the
\* first evening night hour is itself in the list
BorderHoursFree ==
    /\ SetMax({ h \in NightSet : h <= 12 }) + 1 \notin NightSet
    /\ SetMin({ h \in NightSet : h >= 12 }) - 1 \notin NightSet

StepHour(k) == ((params.start_date.min + (k - 1) * params.dt) \div 60) % 24

C6_PatternInUnitRange ==
    \A i \in Runs :
        (fn = "pattern" /\ runs[i].res.err = "")
            => \A k \in 1..Len(runs[i].res.output) :
                   /\ ~IsNaN(runs[i].res.output[k])
                   /\ 0 <= runs[i].res.output[k]
                   /\ runs[i].res.output[k] <= SCALE

NormalisedValues(pat) == { PatternAt(pat, h) : h \in 0..(pat.n - 1) }

\* C7: in zonal mode the normalised average pattern has minimum 0 and
\* maximum 1, a constant average included.
C7_MinMaxExact ==
    \A i \in Runs :
        (fn = "pattern" /\ UseZonal(params) /\ PastZonalBranch(i))
            => /\ SetMin(NormalisedValues(runs[i].res.pat)) = 0
               /\ SetMax(NormalisedValues(runs[i].res.pat)) = SCALE

\* C8: the tiled hourly axis covers every evaluation timestamp up to
\* end_min, so evaluating the interpolant never fails (profile of 8760
\* values, or zonal input past the length check).
C8_AxisCoversHorizon ==
    \A i \in Runs :
        (fn = "pattern" /\ PastZonalBranch(i) /\ runs[i].res.pat.n = 8760)
            => /\ EndMin <= 60 * (runs[i].res.x_len - 1)
               /\ runs[i].res.err # "out_of_range"

CeilDiv(a, b) == (a + b - 1) \div b

\* C9 as stated: N_repet = ceil((Nt_hours - 1) / pattern_length).
C9_RepetIsCeil ==
    \A i \in Runs :
        (CallsPattern /\ PastZonalBranch(i))
            => PatternOf(i).N_repet = CeilDiv(EndMin \div 60, PatternOf(i).pat.n)

\* C9 amended: N_repet = floor((Nt_hours - 1) / pattern_length) + 1, the
\* least N with pattern_length * N >= Nt_hours.
C9_RepetIsLeastCover ==
    \A i \in Runs :
        (CallsPattern /\ PastZonalBranch(i))
            => LET N   == PatternOf(i).N_repet
                   len == PatternOf(i).pat.n
                   nth == EndMin \div 60 + 1
               IN  /\ len * N >= nth
                   /\ len * (N - 1) < nth

\* Nt_hours - 1 is a multiple of pattern_length, 0 and 8760 among them
C9_Witness ==
    /\ fn = "pattern"
    /\ \E i \in Runs :
          /\ PastZonalBranch(i)
          /\ (EndMin \div 60) % runs[i].res.pat.n = 0
          /\ runs[i].res.N_repet = (EndMin \div 60) \div runs[i].res.pat.n + 1
          /\ runs[i].res.err = ""

\* C10: for every legacy profile of at most 8760 values the hourly axis has
\* pattern_length * N elements, as many as the tiled pattern, and the
\* interpolant is fitted.
C10_AxisLenIsSamples ==
    \A i \in Runs :
        (fn = "pattern" /\ ~UseZonal(params) /\ solar_pattern.n <= 8760)
            => /\ runs[i].res.x_len = solar_pattern.n * runs[i].res.N_repet
               /\ runs[i].res.err # "xy_length"

BeforeForce(i) ==
    IF Has(params, "solar_night_hour") THEN NightMask(params, runs[i].res.interp)
    ELSE runs[i].res.interp

\* the call got as far as the force_solar_zero step
ReachedForce(i) ==
    /\ fn = "pattern"
    /\ Has(params, "force_solar_zero")
    /\ runs[i].res.err \in { "", "empty_reduce" }

\* every step at an hour >= Hmax + m or <= Hmin - m is 0 in out and every
\* other step is as in pre, Hmax and Hmin being the latest and the earliest
\* hour at which pre is >= 5% of its maximum
ZeroedBeyond(pre, out, m) ==
    LET hours == HoursAbove(params, pre, threshold_zero(pre))
        Hmax  == SetMax(hours)
        Hmin  == SetMin(hours)
    IN  /\ hours # {}
        /\ Len(out) = Len(pre)
        /\ \A k \in 1..Len(pre) :
              IF StepHour(k) >= Hmax + m \/ StepHour(k) <= Hmin - m
              THEN out[k] = 0
              ELSE out[k] = pre[k]

\* C12: with force_solar_zero = m >= 0 the step completes without error for
\* every pattern, every step whose hour is >= Hmax + m or <= Hmin - m is 0
\* afterwards and every other step keeps its value.
C12_ForceZero ==
    \A i \in Runs :
        ReachedForce(i)
            => /\ runs[i].res.err = ""
               /\ ZeroedBeyond(BeforeForce(i), runs[i].res.output,
                               params["force_solar_zero"])

\* the objects the caller passed in, the generator apart
CallerInputs ==
    { "x", "locations", "params", "solar_pattern", "solar_noise", "long_noise",
      "medium_noise", "short_noise" }

\* C13: a call of smooth, compute_solar_pattern, compute_wind_series or
\* compute_solar_series writes none of the objects the caller passed in,
\* the generator apart; smooth and compute_solar_pattern do not write the
\* generator either; and the model's inputs are the same after the call.
C13_InputsUnchanged ==
    \A i \in Runs :
        fn \in { "smooth", "pattern", "solar", "wind" }
            => /\ runs[i].wrote \cap CallerInputs = { }
               /\ "unbound" \notin runs[i].wrote
               /\ fn \in { "smooth", "pattern" } => "prng" \notin runs[i].wrote
               /\ fn \in { "smooth", "pattern" } => runs[i].prng0 = seed

\* a zonal compute_solar_series call returned a series: it wrote objects of
\* its own and the generator, nothing else
C13_Witness ==
    /\ fn = "solar"
    /\ UseZonal(params)
    /\ \E i \in Runs :
          /\ runs[i].res.err = ""
          /\ runs[i].wrote = { "local", "prng" }

\* every noise amplitude of the call is 0
AllStdZero ==
    IF fn = "solar" THEN params.std_solar_noise = 0
    ELSE /\ params.std_long_wind_noise = 0
         /\ params.std_medium_wind_noise = 0
         /\ params.std_short_wind_noise = 0

Cap == (950 * Pmax) \div SCALE

\* the call of run i made again with every noise sample 0
WithoutNoise(i) ==
    IF fn = "solar"
    THEN compute_solar_series(runs[i].prng0, runs[i].np0, Pmax, << 0 >>, params,
                              smoothdist, solar_pattern, tol)
    ELSE compute_wind_series(runs[i].prng0, runs[i].np0, Pmax, << 0 >>, << 0 >>,
                             << 0 >>, params, smoothdist, tol)

CoordsAbsent ==
    /\ fn = "config"
    /\ "R" \in arg.mode
    /\ "case/solar_coord.json" \notin arg.files
    /\ AllFiles \ arg.files \subseteq { "case/solar_coord.json" }

\* the renewable stage is set up in legacy mode
LegacyConfigured(res) ==
    /\ ~res.use_zonal
    /\ "patterns/solar_pattern.npy" \in res.required
    /\ "case/solar_coord.json" \notin res.required
    /\ ~res.coordinates
    /\ res.base_solar_pattern = "read_specific"

\* C15 as stated: with solar_coord.json absent no error is raised and the
\* renewable stage is configured in legacy mode, whatever
\* use_zonal_solar_pattern is in params_res.json; params_res.json missing at
\* detection gives legacy mode too.
C15_AbsentCoordsIsLegacy ==
    \A i \in Runs :
        /\ CoordsAbsent => (runs[i].res.err = "" /\ LegacyConfigured(runs[i].res))
        /\ (fn = "config" /\ "R" \in arg.mode /\ "case/params_res.json" \notin arg.files)
              => LegacyConfigured(runs[i].res)

\* C15 amended: with solar_coord.json absent, the call raises when
\* params_res.json sets use_zonal_solar_pattern and returns nothing; when
\* it does not, no error is raised and the stage is configured in legacy
\* mode; params_res.json missing at detection gives the legacy requirements.
C15_CoordsRequiredWhenZonal ==
    \A i \in Runs :
        /\ CoordsAbsent
              => IF arg.flag = "true"
                 THEN /\ runs[i].res.err # ""
                      /\ runs[i].res.managers = { }
                      /\ "case/solar_coord.json" \in runs[i].res.required
                      /\ ~runs[i].res.coordinates
                 ELSE /\ runs[i].res.err = ""
                      /\ "R" \in runs[i].res.managers
                      /\ LegacyConfigured(runs[i].res)
        /\ (fn = "config" /\ "R" \in arg.mode /\ "case/params_res.json" \notin arg.files)
              => LegacyConfigured(runs[i].res)

\* the call was made with solar_coord.json absent and the flag set, and it
\* raised
C15_Witness ==
    /\ CoordsAbsent
    /\ arg.flag = "true"
    /\ \E i \in Runs : runs[i].res.err # ""

\* zone k of the call has a latitude or a longitude outside the bounds
OutOfBounds(k) ==
    \/ arg.zones[k].lat < -90 \/ arg.zones[k].lat > 90
    \/ arg.zones[k].lon < -180 \/ arg.zones[k].lon > 180

\* every zone before zone k was fetched
FetchedBefore(k) ==
    \A j \in 1..(k - 1) :
        /\ ~OutOfBounds(j)
        /\ arg.zones[j].resp.status = 200
        /\ arg.zones[j].resp.rows > 0

RequestsOf(res, k) == { q \in 1..Len(res.requests) : res.requests[q].zone = k }

\* C16: for a zone whose latitude is outside [-90, 90] or whose longitude is
\* outside [-180, 180] the call raises the configuration error before any
\* request is issued for that zone, nothing is requested twice, and the
\* caller gets no mapping, not even the zones fetched before; a zone on
\* the bounds is requested.
C16_InvalidCoordinatesRaise ==
    \A i \in Runs :
        fn = "zones"
            => \A k \in 1..Len(arg.zones) :
                 /\ Cardinality(RequestsOf(runs[i].res, k)) <= 1
                 /\ OutOfBounds(k)
                      => /\ RequestsOf(runs[i].res, k) = { }
                         /\ runs[i].res.err # ""
                         /\ runs[i].res.solar_data = << >>
                         /\ FetchedBefore(k)
                               => /\ runs[i].res.err = "invalid_coordinates"
                                  /\ Len(runs[i].res.requests) = k - 1
                 /\ (~OutOfBounds(k) /\ FetchedBefore(k))
                      => /\ RequestsOf(runs[i].res, k) # { }
                         /\ runs[i].res.err # "invalid_coordinates"
                               \/ \E j \in (k + 1)..Len(arg.zones) : OutOfBounds(j)

\* the first zone, on the bounds, was fetched and the second, outside them,
\* made the call raise
C16_Witness ==
    /\ fn = "zones"
    /\ Len(arg.zones) = 2
    /\ arg.zones[1].lat \in { -90, 90 } /\ arg.zones[1].lon \in { -180, 180 }
    /\ OutOfBounds(2)
    /\ \E i \in Runs :
          /\ runs[i].res.err = "invalid_coordinates"
          /\ Len(runs[i].res.requests) = 1
          /\ runs[i].res.solar_data = << >>

\* C17: for every zone the call stores an array of at least 4 * 8760 values
\* or fails; a successful response with fewer rows makes the call fail.
C17_AtLeastFourYears ==
    \A i \in Runs :
        (fn = "zones" /\ runs[i].res.err = "")
            => /\ Len(runs[i].res.solar_data) = Len(arg.zones)
               /\ \A k \in 1..Len(runs[i].res.solar_data) :
                     runs[i].res.solar_data[k].n >= 4 * 8760

RowLayout(i) ==
    LET df == runs[i].res.df
        n  == Len(arg.datetimes)
        labels == { df[k].label : k \in 1..Len(df) }
    IN  /\ Len(df) = n - 1
        /\ \A k \in 1..Len(df) :
              /\ df[k].label \in 1..n
              /\ df[k].datetime = arg.datetimes[df[k].label]
              /\ ~arg.shift => df[k].src = df[k].label
        /\ \A a, b \in 1..Len(df) :
              /\ a # b => df[a].label # df[b].label
              /\ a < b => df[a].datetime <= df[b].datetime
        /\ \E r \in 1..n :
              /\ (1..n) \ labels = { r }
              /\ \A j \in 1..n : arg.datetimes[j] <= arg.datetimes[r]

\* C19 as stated: for any input the returned table is the input sorted
\* ascending by timestamp with exactly one row removed, the one of greatest
\* timestamp: one row fewer than the input, no earlier row lost.
C19_RowLayout == \A i \in Runs : fn = "csv" => RowLayout(i)

\* C19 amended: the layout holds for every input of at least one row; an
\* input without rows gives a table without rows; with shift the index is
\* the same, every row carries the values of the next one and the last row
\* is filled with 0.
C19_RowLayoutNonEmpty ==
    \A i \in Runs :
        fn = "csv"
            => LET df == runs[i].res.df
               IN  /\ arg.datetimes # << >> => RowLayout(i)
                   /\ arg.datetimes = << >> => df = << >>
                   /\ arg.shift
                        => \A k \in 1..Len(df) :
                             df[k].src = IF k < Len(df) THEN df[k + 1].label ELSE 0

\* a table given in descending order, two rows of equal greatest datetime
\* included, came back with two rows
C19_Witness ==
    /\ fn = "csv"
    /\ arg.datetimes = << 3, 3, 1 >>
    /\ ~arg.shift
    /\ \E i \in Runs :
          /\ Len(runs[i].res.df) = 2
          /\ runs[i].res.df[1].label = 3
          /\ runs[i].res.df[2].label = 2

\* the place (from 0) of step k (from 0) among the steps of its hour, by the
\* clock and by the steps of that hour the horizon holds
ClockPlace(k) == ((params.start_date.min + k * params.dt) % 60) \div params.dt

HorizonPlace(k) ==
    Cardinality({ j \in 0..(k - 1) :
                    /\ dts_hours(params, j) = dts_hours(params, k)
                    /\ (k - j) * params.dt < 60 })

Places(k) == { pl \in { ClockPlace(k), HorizonPlace(k) } : pl < RampLen(params) }

\* the value of run i at step k (from 0) is the interpolated one times the
\* claimed mask: the ramp value of the step's place in a border hour (either
\* way of counting the place), 1 in the other hours that are not night hours
MaskedAsClaimed(i, k) ==
    LET h   == dts_hours(params, k)
        out == PatternOf(i).output[k + 1]
        in  == PatternOf(i).interp[k + 1]
    IN  IF h \in NightSet THEN TRUE
        ELSE IF h = first_non_zero_h(params)
        THEN Places(k) # { }
                => \E pl \in Places(k) : out = MulMask(in, left_(params, pl))
        ELSE IF h = last_non_zero_h(params)
        THEN Places(k) # { }
                => \E pl \in Places(k) : out = MulMask(in, right_(params, pl))
        ELSE out = MulMask(in, SCALE)

\* C20: with solar_night_hour configured, on every day, for every start_date
\* and dt, the k-th step of the first hour after the morning night hours
\* gets the k-th value of the rising ramp, the k-th step of the last hour
\* before the evening night hours the k-th value of the falling ramp, every
\* other step outside the night hours is multiplied by 1, and the mask is
\* never refused for a length mismatch.
C20_RampsEveryDay ==
    \A i \in Runs :
        (CallsPattern /\ NightListUsable /\ BorderHoursFree)
            => /\ PatternOf(i).err # "broadcast"
               /\ (PatternOf(i).err = "" /\ ~Has(params, "force_solar_zero"))
                     => \A k \in 0..(Len(PatternOf(i).output) - 1) : MaskedAsClaimed(i, k)

RunLog(i) == runs[i].res.log

\* the place of a stage in the order L, R, D, T
Rank(l) == CHOOSE r \in 1..Len(StageOrder) : StageOrder[r] = l

\* the calls of stage l for scenario s in the log of run i
CallsOf(i, s, l) ==
    { e \in 1..Len(RunLog(i)) : RunLog(i)[e] = Event(s, l, "call") }

\* in the log of run i the scenarios follow each other, inside a scenario
\* the stages come in the order L, R, D, T, no stage is called twice for a
\* scenario, and a call has ended before anything else happens
InStageOrder(i) ==
    /\ \A a, b \in 1..Len(RunLog(i)) :
          a < b => /\ RunLog(i)[a].scenario <= RunLog(i)[b].scenario
                   /\ RunLog(i)[a].scenario = RunLog(i)[b].scenario
                         => Rank(RunLog(i)[a].stage) <= Rank(RunLog(i)[b].stage)
    /\ \A e \in 1..Len(RunLog(i)) :
          /\ Cardinality(CallsOf(i, RunLog(i)[e].scenario, RunLog(i)[e].stage)) <= 1
          /\ RunLog(i)[e].ev = "call"
                => /\ e < Len(RunLog(i))
                   /\ RunLog(i)[e + 1].scenario = RunLog(i)[e].scenario
                   /\ RunLog(i)[e + 1].stage = RunLog(i)[e].stage
                   /\ RunLog(i)[e + 1].ev \in { "return", "raise" }

C22_LossNeverForwarded ==
    \A i \in Runs :
        fn = "run"
            => /\ runs[i].res.loss = "None"
               /\ \A k \in 1..Len(runs[i].res.passed) : runs[i].res.passed[k].loss = "None"
               /\ \A sc \in 1..NumScenarios(arg.n_scenarios) :
                     CallsOf(i, sc, "T") # { }
                        => \E k \in 1..Len(runs[i].res.passed) :
                              runs[i].res.passed[k].scenario = sc

\* the loss stage returned for the second scenario and the dispatch stage
\* was then called for it
C22_Witness ==
    /\ fn = "run"
    /\ \E i \in Runs :
          \E e \in 1..(Len(RunLog(i)) - 1) :
             /\ RunLog(i)[e] = Event(2, "D", "return")
             /\ RunLog(i)[e + 1] = Event(2, "T", "call")
             /\ \E k \in 1..Len(runs[i].res.passed) :
                   runs[i].res.passed[k] = [scenario |-> 2, loss |-> "None"]

\* the mode asks for D, or for T with a dispatch backend set, without both
\* L and R, and the configuration was loaded
NeedsMissingSeries ==
    /\ fn = "run"
    /\ "D" \in Letters(arg.mode) \/ ("T" \in Letters(arg.mode) /\ arg.backend)
    /\ ~({ "L", "R" } \subseteq Letters(arg.mode))

\* the selected stages before D and T
EarlierStages == { l \in { "L", "R" } : l \in Letters(arg.mode) }

\* C23: a mode with D or T (dispatch backend set) but without L or R fails
\* in the first scenario when the D or T stage is reached, on the series
\* never produced; the selected L and R of that scenario have run and
\* written their results by then, these stay written, and no later
\* scenario is started.
C23_FailsAtFirstDispatchOrLoss ==
    \A i \in Runs :
        (NeedsMissingSeries /\ runs[i].res.configured)
            => /\ ~runs[i].res.returned
               /\ \A e \in 1..Len(RunLog(i)) :
                     /\ RunLog(i)[e].scenario = 1
                     /\ RunLog(i)[e].stage \in { "D", "T" }
                           => RunLog(i)[e].ev \in { "unbound", "warn" }
               /\ (\A l \in EarlierStages : arg.fail # << 1, l >>)
                     => /\ runs[i].res.err = "unbound_local"
                        /\ RunLog(i)[Len(RunLog(i))].ev = "unbound"
                        /\ \A l \in EarlierStages :
                              /\ CallsOf(i, 1, l) # { }
                              /\ << 1, l >> \in runs[i].res.written
               /\ runs[i].res.written = { << 1, l >> : l \in { x \in EarlierStages :
                                              \E e \in 1..Len(RunLog(i)) :
                                                 RunLog(i)[e] = Event(1, x, "return") } }

\* a run of three scenarios with mode LT and a dispatch backend failed at T
\* of the first scenario with the results of L written
C23_Witness ==
    /\ fn = "run"
    /\ arg.mode = << "L", "T" >> /\ arg.backend /\ arg.n_scenarios = 3
    /\ \E i \in Runs :
          /\ runs[i].res.err = "unbound_local"
          /\ RunLog(i) = << Event(1, "L", "call"), Event(1, "L", "return"),
                            Event(1, "T", "unbound") >>
          /\ runs[i].res.written = { << 1, "L" >> }

====
